---- MODULE Spec2Model ----
(***************************************************************************)
(* Model of src/internal/infra/security/luks_linux.c: the LUKS volume      *)
(* operations (create, open, close, is_open), the two process runners they *)
(* are built from (execute_command, execute_with_stdin), the key buffer    *)
(* and its wipe (secure_zero), the child processes and the volume the      *)
(* external tools act on.                                                  *)
(*                                                                         *)
(* A C string is a sequence of text chunks (strings); a key is a sequence  *)
(* of key bytes, each written as a chunk too, so that an argument vector   *)
(* and a key are values of one kind and can be compared.                   *)
(***************************************************************************)
EXTENDS Integers, Sequences, FiniteSets, TLC

VARIABLES
    threads,      \* the caller threads of this run
    op,           \* op[t]: the operation thread t is in ("none" when idle)
    pc,           \* pc[t]: position of thread t inside the operation
    device_path,  \* the arguments of the current call
    mapper_name,
    mount_point,
    key,          \* key[t]: the caller's key buffer (NULL when absent)
    key_len,
    inv,          \* inv[t]: the process invocations of the current call
    pipefd,       \* pipefd[t]: the pipe ends thread t holds open
    ret,          \* ret[t]: the value the call returned
    errno,
    mkdir_rc,     \* outcome of mkdir(mount_point, 0700) in the current call
    pre,          \* pre[t]: the volume as it was when the call was made
    world,        \* the volume and the mount point, as the tools see them
    faults        \* whether system calls and tools may fail for no reason of
                  \* the volume's (no process slot, a signal, a crashing tool)

vars == <<threads, op, pc, device_path, mapper_name, mount_point, key, key_len,
          inv, pipefd, ret, errno, mkdir_rc, pre, world, faults>>

argvars == <<op, device_path, mapper_name, mount_point, key_len, pre>>

-----------------------------------------------------------------------------
(* Bounds and value spaces *)

MaxKeyLen == 2

KeyBytes == {"K1"}
ZERO == "00"

NULL == <<"(null)">>
EMPTY == <<>>
DEVICE == <<"/dev/loop0">>
MAPPER == <<"m0">>
MOUNT == <<"/tmp/m0">>

Keys == UNION {[1..n -> KeyBytes] : n \in 1..MaxKeyLen}

PtrArgs(valid) == {NULL, EMPTY, valid}

KeyLens(k) == IF k = NULL THEN {0, 1} ELSE {0, Len(k)}

\* the calls made: every argument right, or exactly one of them missing or empty
AtMostOneOff(oks) == Cardinality({i \in 1..Len(oks) : ~oks[i]}) <= 1

Upd(f, t, v) == [f EXCEPT ![t] = v]

-----------------------------------------------------------------------------
(* secure_zero and the wait-status macros *)

secure_zero(ptr, len) ==
    [i \in 1..Len(ptr) |-> IF i <= len THEN ZERO ELSE ptr[i]]

ExitStatus(code) == code * 256
KilledStatus(sig) == sig
WIFEXITED(status) == status % 128 = 0
WEXITSTATUS(status) == (status \div 256) % 256

-----------------------------------------------------------------------------
(* Argument vectors *)

create_argv(dp) ==
    << <<"cryptsetup">>, <<"luksFormat">>, <<"--type">>, <<"luks2">>,
       <<"--cipher">>, <<"aes-xts-plain64">>, <<"--key-size">>, <<"512">>,
       <<"--hash">>, <<"sha256">>, <<"--key-file">>, <<"-">>, <<"--batch-mode">>,
       dp >>

open_argv(dp, mn) ==
    << <<"cryptsetup">>, <<"luksOpen">>, <<"--key-file">>, <<"-">>, dp, mn >>

\* snprintf into char[256]: the names used here are far shorter than the buffer
mapper_path(mn) == <<"/dev/mapper/">> \o mn

mkfs_argv(mn) == << <<"mkfs.ext4">>, <<"-F">>, <<"-q">>, mapper_path(mn) >>

mount_argv(mn, mp) ==
    << <<"mount">>, <<"-t">>, <<"ext4">>, mapper_path(mn), mp >>

close_argv(mn) == << <<"cryptsetup">>, <<"luksClose">>, mn >>

umount_argv(mp) == << <<"umount">>, <<"-f">>, mp >>

status_argv(mn) == << <<"cryptsetup">>, <<"status">>, mn >>

-----------------------------------------------------------------------------
(* Invocations: one record per call of execute_command / execute_with_stdin *)

NewInv(s, av, withInput, n) ==
    [step |-> s, argv |-> av, input |-> withInput, len |-> n,
     child |-> "none", held |-> {}, status |-> 0, stdin |-> <<>>, eof |-> FALSE,
     out |-> "inherit", written |-> 0, done |-> FALSE, res |-> 0]

Cur(t) == inv[t][Len(inv[t])]

SetCur(t, r) == [inv EXCEPT ![t][Len(inv[t])] = r]

Finished(r, v) == [r EXCEPT !.done = TRUE, !.res = v]

Live(r) == r.child \in {"forked", "running"}

-----------------------------------------------------------------------------
(* The external tools: what a tool that runs to completion does to the     *)
(* volume, read from the argument vector and the bytes it got on stdin.    *)

ToolSuccess(r, w) ==
    CASE r.step = "format" ->
           IF r.argv[14] = DEVICE /\ r.stdin # <<>> /\ ~w.active
           THEN {[w EXCEPT !.volKey = r.stdin, !.hasFs = FALSE]} ELSE {}
      [] r.step = "unlock" ->
           IF r.argv[5] = DEVICE /\ r.argv[6] = MAPPER /\ w.volKey # <<>>
              /\ r.stdin = w.volKey /\ ~w.active
           THEN {[w EXCEPT !.active = TRUE]} ELSE {}
      [] r.step = "mkfs" ->
           IF r.argv[4] = mapper_path(MAPPER) /\ w.active /\ ~w.mounted
           THEN {[w EXCEPT !.hasFs = TRUE]} ELSE {}
      [] r.step = "mount" ->
           IF r.argv[4] = mapper_path(MAPPER) /\ r.argv[5] = MOUNT
              /\ w.active /\ w.hasFs /\ w.dirExists /\ ~w.mounted
           THEN {[w EXCEPT !.mounted = TRUE]} ELSE {}
      [] r.step = "umount" ->
           IF r.argv[3] = MOUNT /\ w.mounted
           THEN {[w EXCEPT !.mounted = FALSE]} ELSE {}
      [] r.step = "lock" ->
           IF r.argv[3] = MAPPER /\ w.active /\ ~w.mounted
           THEN {[w EXCEPT !.active = FALSE]} ELSE {}
      [] r.step = "status" ->
           IF r.argv[3] = MAPPER /\ w.active THEN {w} ELSE {}

-----------------------------------------------------------------------------
(* Initial state *)

NoWorld == [volKey |-> <<>>, active |-> FALSE, mounted |-> FALSE,
            hasFs |-> FALSE, dirExists |-> FALSE]

InitOf(T, w) ==
    /\ threads = T
    /\ op = [t \in T |-> "none"]
    /\ pc = [t \in T |-> "idle"]
    /\ device_path = [t \in T |-> NULL]
    /\ mapper_name = [t \in T |-> NULL]
    /\ mount_point = [t \in T |-> NULL]
    /\ key = [t \in T |-> NULL]
    /\ key_len = [t \in T |-> 0]
    /\ inv = [t \in T |-> <<>>]
    /\ pipefd = [t \in T |-> {}]
    /\ ret = [t \in T |-> 0]
    /\ errno = [t \in T |-> "0"]
    /\ mkdir_rc = [t \in T |-> "none"]
    /\ pre = [t \in T |-> NoWorld]
    /\ world = w

\* one caller thread; every failure the system can produce may happen
Callers == {1}

Init == InitOf(Callers, NoWorld) /\ faults = TRUE

-----------------------------------------------------------------------------
(* Entering and leaving a call *)

Enter(t, o, dp, mn, mp, k, kl) ==
    /\ pc[t] = "idle"
    /\ op' = Upd(op, t, o)
    /\ device_path' = Upd(device_path, t, dp)
    /\ mapper_name' = Upd(mapper_name, t, mn)
    /\ mount_point' = Upd(mount_point, t, mp)
    /\ key' = Upd(key, t, k)
    /\ key_len' = Upd(key_len, t, kl)
    /\ pre' = Upd(pre, t, world)
    /\ UNCHANGED <<threads, faults, pipefd, mkdir_rc, world>>

\* errno = EINVAL; return -1;
Reject(t) ==
    /\ pc' = Upd(pc, t, "returned")
    /\ ret' = Upd(ret, t, -1)
    /\ errno' = Upd(errno, t, "EINVAL")
    /\ UNCHANGED inv

\* the first invocation of a call
Start(t, r) ==
    /\ pc' = Upd(pc, t, IF r.input THEN "ews_pipe" ELSE "ec_fork")
    /\ inv' = Upd(inv, t, <<r>>)
    /\ UNCHANGED <<ret, errno>>

\* a later invocation of a call: the locals of the runner that returned
\* (the wait status, the pipe) are gone; what it did and returned remains
Returned(r) ==
    IF r.child \in {"none", "reaped"}
    THEN [NewInv(r.step, r.argv, r.input, r.len) EXCEPT
             !.child = r.child, !.written = r.written, !.stdin = r.stdin,
             !.done = TRUE, !.res = r.res]
    ELSE r

Begin(t, r) ==
    /\ pc' = Upd(pc, t, IF r.input THEN "ews_pipe" ELSE "ec_fork")
    /\ inv' = Upd(inv, t, Append(SetCur(t, Returned(Cur(t)))[t], r))

\* the return of a call
Return(t, v) ==
    /\ pc' = Upd(pc, t, "returned")
    /\ ret' = Upd(ret, t, v)

-----------------------------------------------------------------------------
(* fork copies the descriptor table of the process: a child gets the write *)
(* ends of the pipes other threads hold open at that moment (the pipes are *)
(* made without O_CLOEXEC) and keeps them until it exits.                  *)

Inherited(t) == {u \in threads \ {t} : 1 \in pipefd[u]}

Forked(t) == [Cur(t) EXCEPT !.child = "forked", !.held = Inherited(t)]

-----------------------------------------------------------------------------
(* execute_with_stdin, the parent's side *)

ews_pipe(t) ==
    /\ pc[t] = "ews_pipe"
    /\ \/ /\ pipefd' = Upd(pipefd, t, {0, 1})
          /\ pc' = Upd(pc, t, "ews_fork")
          /\ UNCHANGED <<inv, errno>>
       \/ /\ faults
          /\ inv' = SetCur(t, Finished(Cur(t), -1))
          /\ pc' = Upd(pc, t, "after")
          /\ errno' = Upd(errno, t, "EMFILE")
          /\ UNCHANGED pipefd
    /\ UNCHANGED <<threads, faults, argvars, key, ret, mkdir_rc, world>>

ews_fork(t) ==
    /\ pc[t] = "ews_fork"
    /\ \/ /\ inv' = SetCur(t, Forked(t))
          /\ pc' = Upd(pc, t, "ews_write")
          /\ UNCHANGED <<pipefd, errno>>
       \/ /\ faults
          /\ pipefd' = Upd(pipefd, t, {})
          /\ inv' = SetCur(t, Finished(Cur(t), -1))
          /\ pc' = Upd(pc, t, "after")
          /\ errno' = Upd(errno, t, "EAGAIN")
    /\ UNCHANGED <<threads, faults, argvars, key, ret, mkdir_rc, world>>

\* close(pipefd[0]); written = write(pipefd[1], input, len); close(pipefd[1]);
\* a pipe whose reader is gone takes nothing (EPIPE); otherwise the write may
\* be whole, short, or fail before any byte went through (SIGPIPE is taken
\* to be ignored or blocked by the embedding process: write returns EPIPE)
Writes(r) ==
    IF ~Live(r) THEN {-1} ELSE IF faults THEN -1 .. r.len ELSE {r.len}

ews_write(t) ==
    /\ pc[t] = "ews_write"
    /\ \E written \in Writes(Cur(t)) :
         /\ inv' = SetCur(t, [Cur(t) EXCEPT
                        !.written = written,
                        !.stdin = IF written > 0 THEN SubSeq(key[t], 1, written)
                                  ELSE <<>>,
                        !.eof = TRUE])
         /\ errno' = Upd(errno, t, IF written = -1 THEN "EPIPE" ELSE errno[t])
    /\ pipefd' = Upd(pipefd, t, {})
    /\ pc' = Upd(pc, t, "ews_wait")
    /\ UNCHANGED <<threads, faults, argvars, key, ret, mkdir_rc, world>>

\* (mutant) the child's exit status is returned although the write fell short
ews_wait_result_unchecked_write(r) ==
    IF WIFEXITED(r.status) THEN WEXITSTATUS(r.status) ELSE -1

\* (mutant) the exit code is read without asking whether the child exited
ews_wait_result_no_wifexited(r) ==
    IF r.written # r.len THEN -1 ELSE WEXITSTATUS(r.status)

\* waitpid returns the status of the exited child and reaps it
ews_wait_result(r) ==
    IF r.written # r.len THEN -1
    ELSE IF WIFEXITED(r.status) THEN WEXITSTATUS(r.status) ELSE -1

ews_wait(t) ==
    /\ pc[t] = "ews_wait"
    /\ Cur(t).child = "exited"
    /\ inv' = SetCur(t, Finished([Cur(t) EXCEPT !.child = "reaped"],
                                 ews_wait_result(Cur(t))))
    /\ pc' = Upd(pc, t, "after")
    /\ UNCHANGED <<threads, faults, argvars, key, pipefd, ret, errno, mkdir_rc, world>>

\* waitpid returns -1 (interrupted while the child still runs): the status is
\* not read and the child is not reaped
ews_wait_fail(t) ==
    /\ faults
    /\ pc[t] = "ews_wait"
    /\ Live(Cur(t))
    /\ inv' = SetCur(t, Finished(Cur(t), -1))
    /\ pc' = Upd(pc, t, "after")
    /\ errno' = Upd(errno, t, "EINTR")
    /\ UNCHANGED <<threads, faults, argvars, key, pipefd, ret, mkdir_rc, world>>

-----------------------------------------------------------------------------
(* execute_command, the parent's side *)

ec_fork(t) ==
    /\ pc[t] = "ec_fork"
    /\ \/ /\ inv' = SetCur(t, Forked(t))
          /\ pc' = Upd(pc, t, "ec_wait")
          /\ UNCHANGED errno
       \/ /\ faults
          /\ inv' = SetCur(t, Finished(Cur(t), -1))
          /\ pc' = Upd(pc, t, "after")
          /\ errno' = Upd(errno, t, "EAGAIN")
    /\ UNCHANGED <<threads, faults, argvars, key, pipefd, ret, mkdir_rc, world>>

ec_wait_result(r) ==
    IF WIFEXITED(r.status) THEN WEXITSTATUS(r.status) ELSE -1

ec_wait(t) ==
    /\ pc[t] = "ec_wait"
    /\ Cur(t).child = "exited"
    /\ inv' = SetCur(t, Finished([Cur(t) EXCEPT !.child = "reaped"],
                                 ec_wait_result(Cur(t))))
    /\ pc' = Upd(pc, t, "after")
    /\ UNCHANGED <<threads, faults, argvars, key, pipefd, ret, errno, mkdir_rc, world>>

ec_wait_fail(t) ==
    /\ faults
    /\ pc[t] = "ec_wait"
    /\ Live(Cur(t))
    /\ inv' = SetCur(t, Finished(Cur(t), -1))
    /\ pc' = Upd(pc, t, "after")
    /\ errno' = Upd(errno, t, "EINTR")
    /\ UNCHANGED <<threads, faults, argvars, key, pipefd, ret, mkdir_rc, world>>

-----------------------------------------------------------------------------
(* The child processes *)

SetInv(t, i, r) == [inv EXCEPT ![t][i] = r]

Exited(r, st) == [r EXCEPT !.child = "exited", !.status = st]

\* the child of invocation i of thread t reads end of file on its standard
\* input: the parent has closed the write end and no other running child
\* holds a copy of it
AtEof(t, i) ==
    /\ inv[t][i].eof
    /\ \A u \in threads : \A j \in 1..Len(inv[u]) :
          (<<u, j>> # <<t, i>> /\ Live(inv[u][j])) => t \notin inv[u][j].held

\* the child's code between fork and the tool's first instruction
child_exec(t, i) ==
    /\ i \in 1..Len(inv[t])
    /\ inv[t][i].child = "forked"
    /\ \/ \* execvp succeeded
          \E o \in (IF ~inv[t][i].input THEN {"inherit"}
                   ELSE IF faults THEN {"devnull", "inherit"} ELSE {"devnull"}) :
             inv' = SetInv(t, i, [inv[t][i] EXCEPT !.child = "running", !.out = o])
       \/ \* dup2 or execvp failed: _exit(127)
          /\ faults
          /\ inv' = SetInv(t, i, Exited(inv[t][i], ExitStatus(127)))
    /\ UNCHANGED <<threads, faults, argvars, pc, key, pipefd, ret, errno, mkdir_rc, world>>

\* the tool does its work and exits 0; a tool fed on stdin reads to end of file
tool_run(t, i) ==
    /\ i \in 1..Len(inv[t])
    /\ inv[t][i].child = "running"
    /\ inv[t][i].input => AtEof(t, i)
    /\ \E w \in ToolSuccess(inv[t][i], world) :
         /\ world' = w
         /\ inv' = SetInv(t, i, Exited(inv[t][i], ExitStatus(0)))
    /\ UNCHANGED <<threads, faults, argvars, pc, key, pipefd, ret, errno, mkdir_rc>>

\* the tool gives up (non-zero exit) or is killed by a signal; a tool that
\* works gives up only when it has read its input and cannot do what it is
\* asked
tool_fail(t, i) ==
    /\ i \in 1..Len(inv[t])
    /\ inv[t][i].child = "running"
    /\ \/ faults
       \/ /\ inv[t][i].input => AtEof(t, i)
          /\ ToolSuccess(inv[t][i], world) = {}
    /\ \E st \in (IF faults THEN {ExitStatus(1), KilledStatus(9)}
                  ELSE {ExitStatus(1)}) :
         inv' = SetInv(t, i, Exited(inv[t][i], st))
    /\ UNCHANGED <<threads, faults, argvars, pc, key, pipefd, ret, errno, mkdir_rc, world>>

-----------------------------------------------------------------------------
(* luks_create_volume *)

luks_create_volume(t) ==
    \E dp \in PtrArgs(DEVICE), k \in Keys \cup {NULL} : \E kl \in KeyLens(k) :
       /\ AtMostOneOff(<<dp = DEVICE, k # NULL /\ kl # 0>>)
       /\ Enter(t, "create", dp, NULL, NULL, k, kl)
       /\ IF dp = NULL \/ k = NULL \/ kl = 0
          THEN Reject(t)
          ELSE Start(t, NewInv("format", create_argv(dp), TRUE, kl))

create_after_format(t) ==
    /\ op[t] = "create" /\ pc[t] = "after"
    /\ key' = Upd(key, t, secure_zero(key[t], key_len[t]))
    /\ Return(t, IF Cur(t).res = 0 THEN 0 ELSE -1)
    /\ UNCHANGED <<threads, faults, argvars, inv, pipefd, errno, mkdir_rc, world>>

-----------------------------------------------------------------------------
(* luks_open_volume *)

\* (mutant) the key is handed to the unlock tool as a key-file argument
luks_open_volume_key_in_argv(t) ==
    \E dp \in PtrArgs(DEVICE), mn \in PtrArgs(MAPPER), mp \in PtrArgs(MOUNT),
       k \in Keys \cup {NULL} : \E kl \in KeyLens(k) :
       /\ AtMostOneOff(<<dp = DEVICE, mn = MAPPER, mp = MOUNT, k # NULL /\ kl # 0>>)
       /\ Enter(t, "open", dp, mn, mp, k, kl)
       /\ IF dp = NULL \/ mn = NULL \/ mp = NULL \/ k = NULL \/ kl = 0
          THEN Reject(t)
          ELSE Start(t, NewInv("unlock",
                  << <<"cryptsetup">>, <<"luksOpen">>, <<"--key-file">>, k, dp, mn >>,
                  TRUE, kl))

luks_open_volume(t) ==
    \E dp \in PtrArgs(DEVICE), mn \in PtrArgs(MAPPER), mp \in PtrArgs(MOUNT),
       k \in Keys \cup {NULL} : \E kl \in KeyLens(k) :
       /\ AtMostOneOff(<<dp = DEVICE, mn = MAPPER, mp = MOUNT, k # NULL /\ kl # 0>>)
       /\ Enter(t, "open", dp, mn, mp, k, kl)
       /\ IF dp = NULL \/ mn = NULL \/ mp = NULL \/ k = NULL \/ kl = 0
          THEN Reject(t)
          ELSE Start(t, NewInv("unlock", open_argv(dp, mn), TRUE, kl))

\* (mutant) a failed unlock is rolled back with the lock tool like a failed mount
open_after_unlock_rollback(t) ==
    /\ op[t] = "open" /\ pc[t] = "after" /\ Cur(t).step = "unlock"
    /\ key' = Upd(key, t, secure_zero(key[t], key_len[t]))
    /\ IF Cur(t).res # 0
       THEN Begin(t, NewInv("lock", close_argv(mapper_name[t]), FALSE, 0))
       ELSE Begin(t, NewInv("mkfs", mkfs_argv(mapper_name[t]), FALSE, 0))
    /\ UNCHANGED <<threads, faults, argvars, pipefd, ret, errno, mkdir_rc, world>>

\* (mutant) a failed unlock is tried again
open_after_unlock_retry(t) ==
    /\ op[t] = "open" /\ pc[t] = "after" /\ Cur(t).step = "unlock"
    /\ IF Cur(t).res # 0
       THEN /\ pc' = Upd(pc, t, "ews_pipe")
            /\ inv' = Upd(inv, t, <<NewInv("unlock",
                           open_argv(device_path[t], mapper_name[t]),
                           TRUE, key_len[t])>>)
            /\ UNCHANGED key
       ELSE /\ key' = Upd(key, t, secure_zero(key[t], key_len[t]))
            /\ Begin(t, NewInv("mkfs", mkfs_argv(mapper_name[t]), FALSE, 0))
    /\ UNCHANGED <<threads, faults, argvars, pipefd, ret, errno, mkdir_rc, world>>

\* (mutant) the key is wiped on the failure return only
open_after_unlock_wipe_on_failure(t) ==
    /\ op[t] = "open" /\ pc[t] = "after" /\ Cur(t).step = "unlock"
    /\ IF Cur(t).res # 0
       THEN /\ key' = Upd(key, t, secure_zero(key[t], key_len[t]))
            /\ Return(t, -1) /\ UNCHANGED inv
       ELSE /\ Begin(t, NewInv("mkfs", mkfs_argv(mapper_name[t]), FALSE, 0))
            /\ UNCHANGED <<key, ret>>
    /\ UNCHANGED <<threads, faults, argvars, pipefd, errno, mkdir_rc, world>>

\* (mutant) the mapper is mounted as it is, without making a file system
open_after_unlock_no_mkfs(t) ==
    /\ op[t] = "open" /\ pc[t] = "after" /\ Cur(t).step = "unlock"
    /\ key' = Upd(key, t, secure_zero(key[t], key_len[t]))
    /\ IF Cur(t).res # 0
       THEN Return(t, -1)
       ELSE pc' = Upd(pc, t, "mkdir") /\ UNCHANGED ret
    /\ UNCHANGED <<threads, faults, argvars, inv, pipefd, errno, mkdir_rc, world>>

\* secure_zero(key, key_len); if (result != 0) return -1; then mkfs
open_after_unlock(t) ==
    /\ op[t] = "open" /\ pc[t] = "after" /\ Cur(t).step = "unlock"
    /\ key' = Upd(key, t, secure_zero(key[t], key_len[t]))
    /\ IF Cur(t).res # 0
       THEN Return(t, -1) /\ UNCHANGED inv
       ELSE Begin(t, NewInv("mkfs", mkfs_argv(mapper_name[t]), FALSE, 0))
            /\ UNCHANGED ret
    /\ UNCHANGED <<threads, faults, argvars, pipefd, errno, mkdir_rc, world>>

\* (mutant) a failed mkfs ends the open
open_after_mkfs_fatal(t) ==
    /\ op[t] = "open" /\ pc[t] = "after" /\ Cur(t).step = "mkfs"
    /\ IF Cur(t).res # 0
       THEN Return(t, -1)
       ELSE pc' = Upd(pc, t, "mkdir") /\ UNCHANGED ret
    /\ UNCHANGED <<threads, faults, argvars, key, inv, pipefd, errno, mkdir_rc, world>>

\* the result of execute_command(mkfs_argv) is dropped
open_after_mkfs(t) ==
    /\ op[t] = "open" /\ pc[t] = "after" /\ Cur(t).step = "mkfs"
    /\ pc' = Upd(pc, t, "mkdir")
    /\ UNCHANGED <<threads, faults, argvars, key, inv, pipefd, ret, errno, mkdir_rc, world>>

\* mkdir(2) on the mount point: the outcomes the kernel can give
MkdirOutcomes(mp, w) ==
    IF mp # MOUNT THEN {"ENOENT"}
    ELSE IF w.dirExists THEN {"EEXIST"} \cup (IF faults THEN {"ENOMEM"} ELSE {})
    ELSE {"ok"} \cup (IF faults THEN {"EACCES"} ELSE {})

\* mkdir(mount_point, 0700), its result dropped; then mount
open_mkdir(t) ==
    /\ op[t] = "open" /\ pc[t] = "mkdir"
    /\ \E rc \in MkdirOutcomes(mount_point[t], world) :
         /\ mkdir_rc' = Upd(mkdir_rc, t, rc)
         /\ errno' = Upd(errno, t, IF rc = "ok" THEN errno[t] ELSE rc)
         /\ world' = IF rc = "ok" THEN [world EXCEPT !.dirExists = TRUE] ELSE world
    /\ Begin(t, NewInv("mount", mount_argv(mapper_name[t], mount_point[t]), FALSE, 0))
    /\ UNCHANGED <<threads, faults, argvars, key, pipefd, ret>>

\* (mutant) a failed mount returns -1 without the lock invocation
open_after_mount_no_rollback(t) ==
    /\ op[t] = "open" /\ pc[t] = "after" /\ Cur(t).step = "mount"
    /\ Return(t, IF Cur(t).res # 0 THEN -1 ELSE 0)
    /\ UNCHANGED <<threads, faults, argvars, key, inv, pipefd, errno, mkdir_rc, world>>

\* (mutant) the test of the mount result is inverted
open_after_mount_inverted(t) ==
    /\ op[t] = "open" /\ pc[t] = "after" /\ Cur(t).step = "mount"
    /\ IF Cur(t).res = 0
       THEN Begin(t, NewInv("lock", close_argv(mapper_name[t]), FALSE, 0))
            /\ UNCHANGED ret
       ELSE Return(t, 0) /\ UNCHANGED inv
    /\ UNCHANGED <<threads, faults, argvars, key, pipefd, errno, mkdir_rc, world>>

\* if (result != 0) { execute_command(close_argv); return -1; } return 0;
open_after_mount(t) ==
    /\ op[t] = "open" /\ pc[t] = "after" /\ Cur(t).step = "mount"
    /\ IF Cur(t).res # 0
       THEN Begin(t, NewInv("lock", close_argv(mapper_name[t]), FALSE, 0))
            /\ UNCHANGED ret
       ELSE Return(t, 0) /\ UNCHANGED inv
    /\ UNCHANGED <<threads, faults, argvars, key, pipefd, errno, mkdir_rc, world>>

open_after_lock(t) ==
    /\ op[t] = "open" /\ pc[t] = "after" /\ Cur(t).step = "lock"
    /\ Return(t, -1)
    /\ UNCHANGED <<threads, faults, argvars, key, inv, pipefd, errno, mkdir_rc, world>>

-----------------------------------------------------------------------------
(* luks_close_volume *)

luks_close_volume(t) ==
    \E mp \in PtrArgs(MOUNT), mn \in PtrArgs(MAPPER) :
       /\ AtMostOneOff(<<mp = MOUNT, mn = MAPPER>>)
       /\ Enter(t, "close", NULL, mn, mp, NULL, 0)
       /\ IF mp = NULL \/ mn = NULL
          THEN Reject(t)
          ELSE Start(t, NewInv("umount", umount_argv(mp), FALSE, 0))

\* (mutant) a failed unmount ends the close without the lock invocation
close_after_umount_fatal(t) ==
    /\ op[t] = "close" /\ pc[t] = "after" /\ Cur(t).step = "umount"
    /\ IF Cur(t).res # 0
       THEN Return(t, -1) /\ UNCHANGED inv
       ELSE Begin(t, NewInv("lock", close_argv(mapper_name[t]), FALSE, 0))
            /\ UNCHANGED ret
    /\ UNCHANGED <<threads, faults, argvars, key, pipefd, errno, mkdir_rc, world>>

\* the result of execute_command(umount_argv) is dropped
close_after_umount(t) ==
    /\ op[t] = "close" /\ pc[t] = "after" /\ Cur(t).step = "umount"
    /\ Begin(t, NewInv("lock", close_argv(mapper_name[t]), FALSE, 0))
    /\ UNCHANGED <<threads, faults, argvars, key, pipefd, ret, errno, mkdir_rc, world>>

close_after_lock(t) ==
    /\ op[t] = "close" /\ pc[t] = "after" /\ Cur(t).step = "lock"
    /\ Return(t, IF Cur(t).res = 0 THEN 0 ELSE -1)
    /\ UNCHANGED <<threads, faults, argvars, key, inv, pipefd, errno, mkdir_rc, world>>

-----------------------------------------------------------------------------
(* luks_is_open *)

luks_is_open(t) ==
    \E mn \in PtrArgs(MAPPER) :
       /\ Enter(t, "is_open", NULL, mn, NULL, NULL, 0)
       /\ IF mn = NULL
          THEN Return(t, 0) /\ UNCHANGED <<inv, errno>>
          ELSE Start(t, NewInv("status", status_argv(mn), FALSE, 0))

\* (mutant) every result but the runner's -1 is taken for an active mapper
is_open_after_status_not_failed(t) ==
    /\ op[t] = "is_open" /\ pc[t] = "after"
    /\ Return(t, IF Cur(t).res # -1 THEN 1 ELSE 0)
    /\ UNCHANGED <<threads, faults, argvars, key, inv, pipefd, errno, mkdir_rc, world>>

\* return execute_command(argv) == 0 ? 1 : 0;
is_open_after_status(t) ==
    /\ op[t] = "is_open" /\ pc[t] = "after"
    /\ Return(t, IF Cur(t).res = 0 THEN 1 ELSE 0)
    /\ UNCHANGED <<threads, faults, argvars, key, inv, pipefd, errno, mkdir_rc, world>>

-----------------------------------------------------------------------------
(* The caller takes the result; the next call starts from a clean slate once *)
(* no child of this call is still running.                                   *)

Finish(t) ==
    /\ pc[t] = "returned"
    /\ \A i \in 1..Len(inv[t]) : ~Live(inv[t][i])
    /\ op' = Upd(op, t, "none")
    /\ pc' = Upd(pc, t, "idle")
    /\ device_path' = Upd(device_path, t, NULL)
    /\ mapper_name' = Upd(mapper_name, t, NULL)
    /\ mount_point' = Upd(mount_point, t, NULL)
    /\ key' = Upd(key, t, NULL)
    /\ key_len' = Upd(key_len, t, 0)
    /\ inv' = Upd(inv, t, <<>>)
    /\ ret' = Upd(ret, t, 0)
    /\ errno' = Upd(errno, t, "0")
    /\ mkdir_rc' = Upd(mkdir_rc, t, "none")
    /\ pre' = Upd(pre, t, NoWorld)
    /\ UNCHANGED <<threads, faults, pipefd, world>>

-----------------------------------------------------------------------------

Next ==
    \/ \E t \in threads : luks_create_volume(t)
    \/ \E t \in threads : create_after_format(t)
    \/ \E t \in threads : luks_open_volume(t)
    \/ \E t \in threads : open_after_unlock(t)
    \/ \E t \in threads : open_after_mkfs(t)
    \/ \E t \in threads : open_mkdir(t)
    \/ \E t \in threads : open_after_mount(t)
    \/ \E t \in threads : open_after_lock(t)
    \/ \E t \in threads : luks_close_volume(t)
    \/ \E t \in threads : close_after_umount(t)
    \/ \E t \in threads : close_after_lock(t)
    \/ \E t \in threads : luks_is_open(t)
    \/ \E t \in threads : is_open_after_status(t)
    \/ \E t \in threads : ews_pipe(t)
    \/ \E t \in threads : ews_fork(t)
    \/ \E t \in threads : ews_write(t)
    \/ \E t \in threads : ews_wait(t)
    \/ \E t \in threads : ews_wait_fail(t)
    \/ \E t \in threads : ec_fork(t)
    \/ \E t \in threads : ec_wait(t)
    \/ \E t \in threads : ec_wait_fail(t)
    \/ \E t \in threads : \E i \in 1..Len(inv[t]) : child_exec(t, i)
    \/ \E t \in threads : \E i \in 1..Len(inv[t]) : tool_run(t, i)
    \/ \E t \in threads : \E i \in 1..Len(inv[t]) : tool_fail(t, i)
    \/ \E t \in threads : Finish(t)

Spec == Init /\ [][Next]_vars

-----------------------------------------------------------------------------
(* The same program where nothing fails for a reason outside the volume:   *)
(* pipe, fork, write, waitpid, open and execvp succeed, and a tool exits   *)
(* non-zero exactly when it cannot do what it is asked.                    *)

InitSound == InitOf(Callers, NoWorld) /\ faults = FALSE

NextSound ==
    \/ \E t \in threads : luks_create_volume(t)
    \/ \E t \in threads : create_after_format(t)
    \/ \E t \in threads : luks_open_volume(t)
    \/ \E t \in threads : open_after_unlock(t)
    \/ \E t \in threads : open_after_mkfs(t)
    \/ \E t \in threads : open_mkdir(t)
    \/ \E t \in threads : open_after_mount(t)
    \/ \E t \in threads : open_after_lock(t)
    \/ \E t \in threads : luks_close_volume(t)
    \/ \E t \in threads : close_after_umount(t)
    \/ \E t \in threads : close_after_lock(t)
    \/ \E t \in threads : luks_is_open(t)
    \/ \E t \in threads : is_open_after_status(t)
    \/ \E t \in threads : ews_pipe(t)
    \/ \E t \in threads : ews_fork(t)
    \/ \E t \in threads : ews_write(t)
    \/ \E t \in threads : ews_wait(t)
    \/ \E t \in threads : ec_fork(t)
    \/ \E t \in threads : ec_wait(t)
    \/ \E t \in threads : \E i \in 1..Len(inv[t]) : child_exec(t, i)
    \/ \E t \in threads : \E i \in 1..Len(inv[t]) : tool_run(t, i)
    \/ \E t \in threads : \E i \in 1..Len(inv[t]) : tool_fail(t, i)
    \/ \E t \in threads : Finish(t)

SpecSound == InitSound /\ [][NextSound]_vars

-----------------------------------------------------------------------------
(* Two threads that each call luks_open_volume once on a formatted, closed *)
(* volume, with tools and system calls that work.                          *)

\* created and never opened, or opened before (file system and mount point
\* exist) and closed again
ClosedVolumes ==
    {[volKey |-> <<"K1">>, active |-> FALSE, mounted |-> FALSE, hasFs |-> used,
      dirExists |-> used] : used \in BOOLEAN}

TwoCallers == {1, 2}

InitTwo == \E w \in ClosedVolumes : InitOf(TwoCallers, w) /\ faults = FALSE

NextTwo ==
    \/ \E t \in threads : luks_open_volume(t)
    \/ \E t \in threads : open_after_unlock(t)
    \/ \E t \in threads : open_after_mkfs(t)
    \/ \E t \in threads : open_mkdir(t)
    \/ \E t \in threads : open_after_mount(t)
    \/ \E t \in threads : open_after_lock(t)
    \/ \E t \in threads : ews_pipe(t)
    \/ \E t \in threads : ews_fork(t)
    \/ \E t \in threads : ews_write(t)
    \/ \E t \in threads : ews_wait(t)
    \/ \E t \in threads : ec_fork(t)
    \/ \E t \in threads : ec_wait(t)
    \/ \E t \in threads : \E i \in 1..Len(inv[t]) : child_exec(t, i)
    \/ \E t \in threads : \E i \in 1..Len(inv[t]) : tool_run(t, i)
    \/ \E t \in threads : \E i \in 1..Len(inv[t]) : tool_fail(t, i)

SpecTwo == InitTwo /\ [][NextTwo]_vars

-----------------------------------------------------------------------------
(* The program where the calling thread keeps being scheduled and every    *)
(* child keeps running until it has exited.                                *)

\* a step of the calling thread inside a call (waitpid returns when the
\* child has exited; that a signal interrupts it is not something to count on)
ThreadStep ==
    \E t \in threads :
       \/ create_after_format(t)
       \/ open_after_unlock(t) \/ open_after_mkfs(t) \/ open_mkdir(t)
       \/ open_after_mount(t) \/ open_after_lock(t)
       \/ close_after_umount(t) \/ close_after_lock(t)
       \/ is_open_after_status(t)
       \/ ews_pipe(t) \/ ews_fork(t) \/ ews_write(t)
       \/ ews_wait(t)
       \/ ec_fork(t) \/ ec_wait(t)

\* a step of a child process
ChildStep ==
    \E t \in threads : \E i \in 1..Len(inv[t]) :
       child_exec(t, i) \/ tool_run(t, i) \/ tool_fail(t, i)

SpecLive == Init /\ [][Next]_vars /\ WF_vars(ThreadStep) /\ WF_vars(ChildStep)

\* the two concurrent calls likewise: whatever can run does run
SpecTwoLive == SpecTwo /\ WF_vars(ThreadStep) /\ WF_vars(ChildStep)

-----------------------------------------------------------------------------
(* Properties *)

AtReturn(t) == pc[t] = "returned"

AllZero(buf) == \A i \in 1..Len(buf) : buf[i] = ZERO

\* C1: whenever luks_create_volume or luks_open_volume returns, on any exit
\* path (the early return on an invalid argument with a non-empty key given
\* included), every byte of the caller's key buffer is zero.
C1_KeyZeroOnEveryExit ==
    \A t \in threads :
       (AtReturn(t) /\ op[t] \in {"create", "open"}
          /\ key[t] # NULL /\ key_len[t] > 0)
       => AllZero(key[t])

\* what the code does keep: the key is zero at every return that follows the
\* secret-fed invocation
C1_KeyZeroAfterInvocation ==
    \A t \in threads :
       (AtReturn(t) /\ op[t] \in {"create", "open"} /\ inv[t] # <<>>)
       => AllZero(key[t])

\* an open call whose unlock succeeded on an inactive mapper and whose mount
\* step failed, at its return
OpenMountFailed(t) ==
    /\ AtReturn(t) /\ op[t] = "open" /\ ~pre[t].active
    /\ Len(inv[t]) >= 3
    /\ inv[t][1].step = "unlock" /\ inv[t][1].res = 0
    /\ inv[t][3].step = "mount" /\ inv[t][3].done /\ inv[t][3].res # 0

LockInvoked(t) ==
    /\ Len(inv[t]) = 4
    /\ inv[t][4].step = "lock" /\ inv[t][4].done
    /\ inv[t][4].argv = close_argv(mapper_name[t])

\* C2 (as claimed): when luks_open_volume is called with the mapper inactive,
\* its unlock succeeds and its mount fails, the lock tool is invoked before
\* the return, the call returns failure and the mapper is inactive at the
\* return.
C2_RollbackLeavesMapperInactive ==
    \A t \in threads :
       OpenMountFailed(t) => LockInvoked(t) /\ ret[t] = -1 /\ ~world.active

\* C2 (amended): in that case the lock invocation is made before the return
\* and the call returns failure; the mapper is inactive at the return when the
\* lock invocation returned 0 (its result is not looked at).
C2_RollbackAttempted ==
    \A t \in threads :
       OpenMountFailed(t) =>
          /\ LockInvoked(t) /\ ret[t] = -1
          /\ inv[t][4].res = 0 => ~world.active

C2_RolledBack ==
    \E t \in threads :
       /\ OpenMountFailed(t) /\ LockInvoked(t)
       /\ inv[t][4].res = 0 /\ inv[t][4].child = "reaped"
       /\ ~world.active /\ ret[t] = -1

\* a secret-fed invocation whose write did not deliver the whole payload
ShortWrite(r) == r.input /\ r.eof /\ r.written # r.len

\* C3: when the bytes written to the pipe differ from the payload length,
\* execute_with_stdin returns -1 whatever the child's exit status, the
\* operation returns failure, and no later step (mkfs, mkdir, mount) is made.
C3_PartialWriteIsFailure ==
    \A t \in threads :
       (inv[t] # <<>> /\ ShortWrite(inv[t][1])) =>
          /\ Len(inv[t]) = 1
          /\ mkdir_rc[t] = "none"
          /\ inv[t][1].done => inv[t][1].res = -1
          /\ AtReturn(t) => ret[t] = -1

\* the child got a prefix of the key, took it for the whole key and exited 0
C3_ShortWriteChildExitedZero ==
    \E t \in threads :
       /\ AtReturn(t) /\ op[t] = "open" /\ inv[t] # <<>>
       /\ ShortWrite(inv[t][1]) /\ inv[t][1].written > 0
       /\ inv[t][1].child = "reaped" /\ inv[t][1].status = ExitStatus(0)
       /\ world.active /\ ret[t] = -1

\* C4: when execute_with_stdin returns, on any exit path, the parent holds
\* neither end of the pipe and the child it forked, if any, has been reaped.
C4_NoFdNoChildOutlivesCall ==
    \A t \in threads :
       (inv[t] # <<>> /\ Cur(t).input /\ Cur(t).done) =>
          /\ pipefd[t] = {}
          /\ Cur(t).child \in {"none", "reaped"}

\* the part the code keeps: no pipe end is held once the runner has returned
C4_NoFdOutlivesCall ==
    \A t \in threads :
       (pc[t] \notin {"ews_fork", "ews_write"}) => pipefd[t] = {}

HasKeyBytes(s) == \E c \in 1..Len(s) : s[c] \in KeyBytes

IsPrefix(s, k) == Len(s) <= Len(k) /\ s = SubSeq(k, 1, Len(s))

\* C5: no element of an argument vector built by luks_create_volume or
\* luks_open_volume is the key or holds key bytes; the vector names stdin as
\* the key file ("--key-file", "-") and the key goes to the child through the
\* pipe only.
C5_NoKeyInArgv ==
    \A t \in threads : \A i \in 1..Len(inv[t]) :
       LET r == inv[t][i] IN
       /\ \A j \in 1..Len(r.argv) : r.argv[j] # key[t] /\ ~HasKeyBytes(r.argv[j])
       /\ r.step \in {"format", "unlock"} =>
             /\ r.input
             /\ \E j \in 1..(Len(r.argv) - 1) :
                   r.argv[j] = <<"--key-file">> /\ r.argv[j + 1] = <<"-">>
       /\ r.stdin # <<>> => r.input /\ HasKeyBytes(r.stdin)
       /\ (r.eof /\ pc[t] = "ews_wait") => IsPrefix(r.stdin, key[t])

\* the tool runs with the whole key on its stdin and none of it in its argv
C5_KeyDeliveredOnStdin ==
    \E t \in threads :
       /\ op[t] \in {"create", "open"} /\ pc[t] = "ews_wait"
       /\ Cur(t).child = "running" /\ Cur(t).stdin = key[t]
       /\ HasKeyBytes(key[t])

\* the child of an invocation was reaped with exit status 0
ExitedZero(r) == r.child = "reaped" /\ WIFEXITED(r.status) /\ WEXITSTATUS(r.status) = 0

\* C6: luks_close_volume, its arguments accepted, always makes the lock
\* invocation after the unmount attempt, whatever the unmount gave, and
\* returns success exactly when the lock invocation exited with status 0;
\* closing an already closed mapper returns failure and leaves it inactive.
C6_CloseDecidedByLock ==
    \A t \in threads :
       (AtReturn(t) /\ op[t] = "close"
          /\ mount_point[t] # NULL /\ mapper_name[t] # NULL) =>
          /\ Len(inv[t]) = 2
          /\ inv[t][1].step = "umount" /\ inv[t][1].done
          /\ inv[t][2].step = "lock" /\ inv[t][2].done
          /\ inv[t][2].argv = close_argv(mapper_name[t])
          /\ ret[t] \in {0, -1}
          /\ ret[t] = 0 <=> ExitedZero(inv[t][2])
          /\ ~pre[t].active => ret[t] = -1 /\ ~world.active

\* the unmount failed, the lock exited 0 and the call returned success
C6_ClosedAfterFailedUmount ==
    \E t \in threads :
       /\ AtReturn(t) /\ op[t] = "close" /\ Len(inv[t]) = 2
       /\ inv[t][1].res # 0 /\ ExitedZero(inv[t][2])
       /\ ret[t] = 0 /\ pre[t].active /\ ~world.active

\* C7: when the unlock step of luks_open_volume fails, the call returns
\* failure and makes none of the later steps (mkfs, mkdir, mount, lock); a
\* mapper that was active before the call is still active.
C7_FailedUnlockStops ==
    \A t \in threads :
       (op[t] = "open" /\ inv[t] # <<>>
          /\ inv[t][1].done /\ inv[t][1].res # 0) =>
          /\ Len(inv[t]) = 1
          /\ mkdir_rc[t] = "none"
          /\ pc[t] \in {"after", "returned"}
          /\ AtReturn(t) => ret[t] = -1
          /\ pre[t].active => world.active

\* an open on an already active mapper: the unlock tool exited non-zero
C7_FailedUnlockOnActiveMapper ==
    \E t \in threads :
       /\ AtReturn(t) /\ op[t] = "open" /\ Len(inv[t]) = 1
       /\ inv[t][1].child = "reaped" /\ inv[t][1].res > 0
       /\ inv[t][1].written = inv[t][1].len
       /\ pre[t].active /\ world.active /\ ret[t] = -1

\* C8: in luks_open_volume a mkdir of the mount point that fails because the
\* directory exists is not fatal, one that fails for any other reason is: the
\* call then reports failure; a successful call had the directory made or
\* found it there.
C8_MkdirFailureIsFatal ==
    \A t \in threads :
       (AtReturn(t) /\ op[t] = "open") =>
          /\ mkdir_rc[t] \notin {"none", "ok", "EEXIST"} => ret[t] = -1
          /\ ret[t] = 0 => mkdir_rc[t] = "ok" \/ pre[t].dirExists

\* what the code does keep: the mount is attempted whatever mkdir gave, and a
\* successful call found the directory in place when it mounted
C8_MkdirResultDropped ==
    \A t \in threads :
       (op[t] = "open" /\ mkdir_rc[t] # "none") =>
          /\ Len(inv[t]) >= 3 /\ inv[t][3].step = "mount"
          /\ (AtReturn(t) /\ ret[t] = 0) => world.dirExists

Missing(p) == p = NULL \/ p = EMPTY

\* the call in progress has a missing or empty required parameter
InvalidArguments(t) ==
    \/ op[t] = "create" /\
          (Missing(device_path[t]) \/ key[t] = NULL \/ key_len[t] = 0)
    \/ op[t] = "open" /\
          (Missing(device_path[t]) \/ Missing(mapper_name[t])
             \/ Missing(mount_point[t]) \/ key[t] = NULL \/ key_len[t] = 0)
    \/ op[t] = "close" /\ (Missing(mount_point[t]) \/ Missing(mapper_name[t]))

\* C9: create, open and close called with a missing or empty required
\* parameter return failure without spawning a process and without changing
\* the volume.
C9_InvalidArgumentNoSpawn ==
    \A t \in threads :
       InvalidArguments(t) =>
          /\ \A i \in 1..Len(inv[t]) : inv[t][i].child = "none"
          /\ AtReturn(t) => ret[t] = -1 /\ errno[t] = "EINVAL" /\ world = pre[t]

\* what the code does keep: a null pointer or a zero key length is rejected
\* before any process is spawned
C9_NullArgumentNoSpawn ==
    \A t \in threads :
       (op[t] \in {"create", "open", "close"} /\
          (\/ key_len[t] = 0 /\ op[t] # "close"
           \/ key[t] = NULL /\ op[t] # "close"
           \/ mapper_name[t] = NULL /\ op[t] # "create"
           \/ mount_point[t] = NULL /\ op[t] # "create"
           \/ device_path[t] = NULL /\ op[t] # "close")) =>
          /\ inv[t] = <<>> /\ pc[t] = "returned"
          /\ ret[t] = -1 /\ errno[t] = "EINVAL" /\ world = pre[t]

\* the result of luks_open_volume as its steps decide it
OpenResult(unlock, mount) == IF unlock = 0 /\ mount = 0 THEN 0 ELSE -1

\* C10: the result of luks_open_volume does not depend on what the mkfs step
\* gave: once the unlock succeeded the mount is attempted, and the call
\* returns what the unlock and the mount results decide.
C10_MkfsOutcomeIgnored ==
    \A t \in threads :
       (op[t] = "open" /\ Len(inv[t]) >= 2 /\ inv[t][2].done) =>
          /\ inv[t][2].step = "mkfs"
          /\ pc[t] # "returned" \/ Len(inv[t]) >= 3
          /\ AtReturn(t) =>
                /\ inv[t][3].step = "mount" /\ inv[t][3].done
                /\ ret[t] = OpenResult(inv[t][1].res, inv[t][3].res)

\* the mkfs failed (or could not be spawned) and the open succeeded
C10_OpenedAfterFailedMkfs ==
    \E t \in threads :
       /\ AtReturn(t) /\ op[t] = "open" /\ Len(inv[t]) = 3
       /\ inv[t][2].step = "mkfs" /\ inv[t][2].res # 0
       /\ ret[t] = 0 /\ world.mounted

-----------------------------------------------------------------------------
(* The end-to-end scenario, under SpecSound *)

Formatted(w) == w.volKey # <<>>

Closed(w) == ~w.active /\ ~w.mounted

\* the bytes the first invocation of the call got on its standard input
KeyGiven(t) == inv[t][1].stdin

ValidOpen(t) ==
    /\ AtReturn(t) /\ op[t] = "open" /\ inv[t] # <<>>
    /\ device_path[t] = DEVICE /\ mapper_name[t] = MAPPER /\ mount_point[t] = MOUNT

\* C11: with tools that work, on a closed volume: create succeeds and leaves
\* the mapper closed (is_open false); open with the volume's key on the
\* formatted closed volume succeeds and leaves the mapper open and mounted
\* (is_open true); close of the opened volume succeeds and leaves the mapper
\* closed (is_open false); open with another key fails at the unlock step, no
\* later step is made and the mapper stays closed; is_open answers what the
\* mapper is.
C11_EndToEndScenario ==
    \A t \in threads :
       /\ (AtReturn(t) /\ op[t] = "create" /\ inv[t] # <<>>
             /\ device_path[t] = DEVICE /\ Closed(pre[t]))
          => /\ ret[t] = 0
             /\ world.volKey = KeyGiven(t) /\ Closed(world)
       /\ (ValidOpen(t) /\ Formatted(pre[t]) /\ Closed(pre[t])
             /\ KeyGiven(t) = pre[t].volKey)
          => /\ ret[t] = 0
             /\ world.active /\ world.mounted
       /\ (ValidOpen(t) /\ Formatted(pre[t]) /\ Closed(pre[t])
             /\ KeyGiven(t) # pre[t].volKey)
          => /\ ret[t] = -1
             /\ Len(inv[t]) = 1 /\ inv[t][1].step = "unlock" /\ inv[t][1].res > 0
             /\ Closed(world)
       /\ (AtReturn(t) /\ op[t] = "close" /\ inv[t] # <<>>
             /\ mapper_name[t] = MAPPER /\ mount_point[t] = MOUNT
             /\ pre[t].active /\ pre[t].mounted)
          => /\ ret[t] = 0
             /\ Closed(world)
       /\ (AtReturn(t) /\ op[t] = "is_open" /\ mapper_name[t] = MAPPER)
          => /\ ret[t] = (IF world.active THEN 1 ELSE 0)
             /\ world = pre[t]

\* the last step of the scenario: the volume has been created, opened with
\* its key (it has a file system and a mount point) and closed again, and an
\* open with another key has returned
C11_WrongKeyAfterClose ==
    \E t \in threads :
       /\ ValidOpen(t) /\ KeyGiven(t) # pre[t].volKey
       /\ Formatted(pre[t]) /\ Closed(pre[t])
       /\ pre[t].hasFs /\ pre[t].dirExists
       /\ ret[t] = -1 /\ Closed(world)
-----------------------------------------------------------------------------

\* C12: a luks_create_volume call that passed the argument check makes one
\* invocation, of the format tool with the key as its standard input, and no
\* second one; it returns 0 exactly when that invocation wrote the whole key
\* and its child was reaped having exited with status 0, and -1 on every
\* other outcome.
C12_CreateDecidedByFormat ==
    \A t \in threads :
       /\ op[t] = "create" => Len(inv[t]) <= 1
       /\ (AtReturn(t) /\ op[t] = "create"
             /\ device_path[t] # NULL /\ key[t] # NULL /\ key_len[t] # 0)
          => /\ Len(inv[t]) = 1
             /\ inv[t][1].step = "format"
             /\ inv[t][1].argv = create_argv(device_path[t])
             /\ inv[t][1].input /\ inv[t][1].len = key_len[t]
             /\ inv[t][1].written = inv[t][1].len
                   => Len(inv[t][1].stdin) = key_len[t]
             /\ ret[t] \in {0, -1}
             /\ ret[t] = 0 <=> (inv[t][1].written = inv[t][1].len
                                  /\ ExitedZero(inv[t][1]))

\* a create call that returned 0: the volume carries the key the child read
C12_Created ==
    \E t \in threads :
       /\ AtReturn(t) /\ op[t] = "create" /\ ret[t] = 0
       /\ Len(inv[t]) = 1 /\ ExitedZero(inv[t][1])
       /\ Len(inv[t][1].stdin) = key_len[t]
       /\ world.volKey = inv[t][1].stdin
-----------------------------------------------------------------------------

\* C13: luks_is_open returns 1 exactly when its status invocation was reaped
\* having exited with status 0, and 0 on every other outcome (non-zero exit,
\* exec failure, death by signal, fork or waitpid failure, no mapper name, for
\* which no invocation is made); the answer is computed from that one
\* invocation of this call alone, it leaves the volume as it was, and an
\* answer of 1 is given only for a mapper that is active.
C13_IsOpenDecidedByStatus ==
    \A t \in threads :
       /\ op[t] = "is_open" => Len(inv[t]) <= 1 /\ world = pre[t]
       /\ (AtReturn(t) /\ op[t] = "is_open") =>
             /\ ret[t] \in {0, 1}
             /\ mapper_name[t] = NULL => inv[t] = <<>> /\ ret[t] = 0
             /\ mapper_name[t] # NULL =>
                   /\ Len(inv[t]) = 1
                   /\ inv[t][1].step = "status" /\ ~inv[t][1].input
                   /\ inv[t][1].argv = status_argv(mapper_name[t])
                   /\ ret[t] = 1 <=> ExitedZero(inv[t][1])
             /\ ret[t] = 1 => mapper_name[t] = MAPPER /\ world.active

\* luks_is_open returned 1 for the active mapper
C13_ReportedOpen ==
    \E t \in threads :
       /\ AtReturn(t) /\ op[t] = "is_open" /\ ret[t] = 1
       /\ ExitedZero(inv[t][1]) /\ world.active
-----------------------------------------------------------------------------

\* the call of thread t has gone past its first invocation: a later
\* invocation has been begun or the mount point is being created
PastUnlock(t) == Len(inv[t]) >= 2 \/ pc[t] = "mkdir"

\* C15: in luks_open_volume the key buffer is all zero in every state in
\* which a step after the unlock invocation has begun: the mkfs, mount or
\* rollback lock invocation exists (its child included) or the mount point is
\* being created.
C15_KeyWipedBeforeLaterSteps ==
    \A t \in threads :
       (op[t] = "open" /\ PastUnlock(t)) =>
          /\ AllZero(key[t])
          /\ inv[t][1].step = "unlock" /\ inv[t][1].done

\* the mkfs child runs while the caller's buffer, which held a key, is zero
C15_MkfsRunsAfterWipe ==
    \E t \in threads :
       /\ op[t] = "open" /\ Len(inv[t]) = 2
       /\ inv[t][2].step = "mkfs" /\ inv[t][2].child = "running"
       /\ key[t] # NULL /\ Len(key[t]) = key_len[t] /\ key_len[t] > 0
       /\ AllZero(key[t])
-----------------------------------------------------------------------------

\* a child that exists: forked and not yet reaped
Unreaped(r) == r.child \in {"forked", "running", "exited"}

\* C16: the steps of one operation are strictly sequential: when an
\* invocation has returned its result its child (if one was forked) has been
\* reaped, and at no time do two children of the same call exist; the failure
\* of waitpid (on the mkfs child in open, the umount child in close) included.
C16_OneChildAtATime ==
    \A t \in threads :
       /\ \A i \in 1..Len(inv[t]) : inv[t][i].done => ~Unreaped(inv[t][i])
       /\ Cardinality({i \in 1..Len(inv[t]) : Unreaped(inv[t][i])}) <= 1

\* C17: every child of execute_with_stdin that runs the tool (execvp has
\* succeeded) has its standard output and standard error on /dev/null, the
\* case where open("/dev/null") failed in the child included.
C17_ToolOutputDiscarded ==
    \A t \in threads : \A i \in 1..Len(inv[t]) :
       (inv[t][i].input /\ inv[t][i].child = "running")
          => inv[t][i].out = "devnull"
-----------------------------------------------------------------------------

\* the invocations of the call of thread t that run step s
StepsOf(t, s) == {i \in 1..Len(inv[t]) : inv[t][i].step = s}

\* C19: a luks_open_volume call whose unlock invocation returned 0 makes the
\* invocation mkfs.ext4 -F -q /dev/mapper/<mapper_name> once, as its second
\* invocation (after the unlock, before the mount), whether or not the volume
\* already had a file system; a call whose unlock invocation failed makes
\* none; create, close and is_open make none.
C19_MkfsOnceAfterUnlock ==
    \A t \in threads :
       /\ op[t] # "open" => StepsOf(t, "mkfs") = {}
       /\ op[t] = "open" =>
             /\ StepsOf(t, "mkfs") \subseteq {2}
             /\ StepsOf(t, "mount") \subseteq {3}
             /\ StepsOf(t, "unlock") \subseteq {1}
             /\ \A i \in StepsOf(t, "mkfs") :
                   /\ inv[t][i].argv = mkfs_argv(mapper_name[t])
                   /\ inv[t][1].step = "unlock" /\ inv[t][1].done
                   /\ inv[t][1].res = 0
             /\ (AtReturn(t) /\ inv[t] # <<>> /\ inv[t][1].res = 0)
                   => /\ StepsOf(t, "mkfs") = {2} /\ inv[t][2].done
                      /\ StepsOf(t, "mount") = {3}
             /\ (AtReturn(t) /\ inv[t] # <<>> /\ inv[t][1].res # 0)
                   => StepsOf(t, "mkfs") = {}

\* an open of a volume that had a file system returned 0 after mkfs ran on it
C19_FormattedVolumeFormattedAgain ==
    \E t \in threads :
       /\ AtReturn(t) /\ op[t] = "open" /\ ret[t] = 0
       /\ pre[t].hasFs
       /\ StepsOf(t, "mkfs") = {2}
       /\ inv[t][2].child = "reaped" /\ inv[t][2].res = 0
       /\ inv[t][2].argv = mkfs_argv(MAPPER)
-----------------------------------------------------------------------------

InCall(t) == pc[t] \notin {"idle", "returned"}

\* C20: every call of the four operations returns, given that the thread
\* runs and every child it forks goes on to exit; a call makes at most four
\* invocations; and a thread in waitpid whose child has not exited leaves
\* waitpid only by the call failing (there is no timeout).
C20_EveryCallReturns ==
    /\ \A t \in Callers : InCall(t) ~> AtReturn(t)
    /\ [](\A t \in threads : Len(inv[t]) <= 4)
    /\ [][\A t \in threads :
            (pc[t] \in {"ews_wait", "ec_wait"} /\ Cur(t).child # "exited"
               /\ pc'[t] # pc[t])
            => (Cur(t)'.res = -1 /\ errno'[t] = "EINTR")]_vars

\* an open call has returned after its four children ran and were reaped
C20_ReturnedAfterFourChildren ==
    \E t \in threads :
       /\ AtReturn(t) /\ op[t] = "open" /\ Len(inv[t]) = 4
       /\ \A i \in 1..4 : inv[t][i].child = "reaped"
-----------------------------------------------------------------------------

\* the values errno takes in the model
Errnos == {"0", "EINVAL", "EMFILE", "EAGAIN", "EPIPE", "EINTR",
           "ENOENT", "EEXIST", "ENOMEM", "EACCES"}

\* what a caller gets from a call that failed: the return value and errno
Outcomes == {-1} \X Errnos

\* the step at which a returned luks_open_volume call failed
FailedStep(t) ==
    IF ret[t] = 0 THEN "none"
    ELSE IF inv[t] = <<>> THEN "argument"
    ELSE IF Len(inv[t]) = 1 THEN "unlock"
    ELSE "mount"

\* a luks_open_volume call has returned outcome o having failed at step s
Reported(o, s) ==
    \E t \in Callers :
       /\ AtReturn(t) /\ op[t] = "open"
       /\ <<ret[t], errno[t]>> = o /\ FailedStep(t) = s

\* C14: the outcome luks_open_volume reports tells an invalid argument, a
\* failed unlock and a failed mount from one another: no outcome (return
\* value and errno, errno cleared by the caller before each call) is reported
\* in one run both by a call that failed at one of these steps and by a call
\* that failed at another.
C14_OutcomeTellsFailedStep ==
    \A o \in Outcomes :
       /\ [](~Reported(o, "argument")) \/ [](~Reported(o, "unlock"))
       /\ [](~Reported(o, "argument")) \/ [](~Reported(o, "mount"))
       /\ [](~Reported(o, "unlock")) \/ [](~Reported(o, "mount"))
-----------------------------------------------------------------------------
(* Two concurrent calls, under SpecTwo *)

Succeeded == {t \in threads : AtReturn(t) /\ ret[t] = 0}

\* at most one of the two calls returns 0, and once both have returned the
\* mapper is active exactly when one of them returned 0, and then it is
\* mounted
AtMostOneOpens ==
    /\ Cardinality(Succeeded) <= 1
    /\ (\A t \in threads : AtReturn(t) /\ op[t] = "open") =>
          /\ world.active <=> Succeeded # {}
          /\ world.active => world.mounted

\* both calls were made on the closed volume with its key; one has opened
\* it and the other has failed at its unlock step on the mapper the first
\* had made active
LoserFailedAtUnlock ==
    \E t \in threads : \E u \in threads \ {t} :
       /\ ValidOpen(t) /\ ValidOpen(u)
       /\ Closed(pre[t]) /\ Closed(pre[u])
       /\ KeyGiven(t) = world.volKey /\ KeyGiven(u) = world.volKey
       /\ ret[t] = 0 /\ world.active /\ world.mounted
       /\ ret[u] = -1 /\ Len(inv[u]) = 1 /\ inv[u][1].res > 0

\* both unlock children wait for the end of their input, each holding the
\* write end of the other's pipe: neither call returns
BothChildrenWaitForEof ==
    \E t \in threads : \E u \in threads \ {t} :
       /\ pc[t] = "ews_wait" /\ pc[u] = "ews_wait"
       /\ Cur(t).child = "running" /\ Cur(u).child = "running"
       /\ u \in Cur(t).held /\ t \in Cur(u).held
\* C18: when two luks_open_volume calls run concurrently on the closed
\* volume, in any interleaving of their steps and of their children's, the
\* conflict ends in an ordinary failure of one call: both calls return, at
\* most one of them returns 0, and once both have returned the mapper is
\* active exactly when one of them returned 0.
C18_ConflictEndsInOrdinaryFailure ==
    /\ []AtMostOneOpens
    /\ \A t \in TwoCallers : InCall(t) ~> AtReturn(t)
====
